---- MODULE Spec2Model ----
(***************************************************************************)
(* State-machine model of core-p2p/src/service.rs: the Service reactor    *)
(* (peer registry, listening addresses, reconnect queue), the RawSwarm it *)
(* drives and the ServiceHandle it drains.                                 *)
(***************************************************************************)
EXTENDS Integers, Sequences, FiniteSets, TLC

\* ------------------------------------------------------------------ bounds
\* inputs of one behaviour: raw events the network produces and commands
\* the application issues (through the handle or directly)
MaxSteps == 5
\* raw events that may be ready in the swarm at once
MaxReady == 2

\* ------------------------------------------------------------------ values
\* remote peer identities, in the order in which a behaviour first names them
PeerOrder == <<"p1", "p2">>
Peers == {PeerOrder[i] : i \in 1..Len(PeerOrder)}
local_peer_id == "local"

Ip4(v) == [proto |-> "ip4", val |-> v]
Tcp(v) == [proto |-> "tcp", val |-> v]
P2p(id) == [proto |-> "p2p", val |-> id]

AddrA == <<Ip4("a"), Tcp("1")>>
AddrB == <<Ip4("b"), Tcp("0")>>
\* an address no configured transport supports
AddrM == <<[proto |-> "memory", val |-> "m"]>>
Addrs == {AddrA, AddrB, AddrM}
\* addresses the application dials and listens on, and addresses remote
\* peers connect from
DialAddrs == {AddrA, AddrM}
ListenAddrs == {AddrB, AddrM}
RemoteAddrs == {AddrB}

Protocols == {7}
Versions == {1}
Payloads == {"d1"}

Dialer(address) == [role |-> "Dialer", address |-> address]
Listener(send_back_addr) == [role |-> "Listener", address |-> send_back_addr]

\* HashMap helpers: a map is a function whose DOMAIN is its key set
EmptyMap == [k \in {} |-> 0]
MapRemove(m, k) == [x \in (DOMAIN m) \ {k} |-> m[x]]
MapInsert(m, k, v) == [x \in (DOMAIN m) \cup {k} |-> IF x = k THEN v ELSE m[x]]

\* per-connection handler events (CITAOutEvent)
CITAOutEvents ==
    [type : {"CustomProtocolOpen"}, protocol : Protocols, version : Versions]
    \cup [type : {"CustomMessage"}, protocol : Protocols, data : Payloads]
    \cup [type : {"CustomProtocolClosed"}, protocol : Protocols]
    \cup [type : {"Useless", "PingStart", "PingSuccess", "IdentificationRequest"}]
    \cup [type : {"Identified"}, listen_addrs : {<<AddrA>>}, observed_addr : {AddrB}]

\* ------------------------------------------------------------------ RawSwarm
\* The RawSwarm is a library the service owns (field `swarm`).  Its part of
\* the state: nodes (peers it reports as connected, with their endpoint),
\* inbox (events sent to each connection's handler), dialing / accepting
\* (outgoing and incoming attempts in progress), listeners, ready (raw events
\* it will report, in order, to the next calls of poll), useless (peers whose
\* handler has reported Useless and is shutting down) and responses (the
\* identify responses the last operation handed to responders).

Supported(addr) == addr[1].proto = "ip4"

\* the address a listener is really bound to: port 0 becomes a real port
Bind(addr) ==
    [i \in 1..Len(addr) |-> IF addr[i] = Tcp("0") THEN Tcp("2") ELSE addr[i]]

swarm_dial(sw, addr) ==
    IF Supported(addr)
    THEN [ok |-> TRUE, addr |-> addr,
          sw |-> [sw EXCEPT !.dialing = @ \cup {addr}]]
    ELSE [ok |-> FALSE, addr |-> addr, sw |-> sw]

swarm_listen_on(sw, addr) ==
    IF Supported(addr)
    THEN [ok |-> TRUE, addr |-> Bind(addr),
          sw |-> [sw EXCEPT !.listeners =
                     IF \E i \in 1..Len(@) : @[i] = Bind(addr)
                     THEN @ ELSE Append(@, Bind(addr))]]
    ELSE [ok |-> FALSE, addr |-> addr, sw |-> sw]

as_connected(sw, id) == id \in DOMAIN sw.nodes

send_event(sw, id, ev) == [sw EXCEPT !.inbox[id] = Append(@, ev)]

broadcast_event(sw, ev) ==
    [sw EXCEPT !.inbox = [p \in DOMAIN @ |-> Append(@[p], ev)]]

\* raw events still queued for the connection that close() ends are never
\* reported; a queued replacement then arrives as a fresh connection
RECURSIVE PurgeClosed(_, _)
PurgeClosed(ready, id) ==
    IF ready = <<>> THEN <<>>
    ELSE LET e == Head(ready)
             mine == "peer_id" \in DOMAIN e /\ e.peer_id = id
         IN  IF ~mine THEN <<e>> \o PurgeClosed(Tail(ready), id)
             ELSE IF e.type = "NodeEvent" THEN PurgeClosed(Tail(ready), id)
             ELSE IF e.type \in {"NodeClosed", "NodeError"} THEN Tail(ready)
             ELSE IF e.type = "Replaced"
             THEN <<[type |-> "Connected", peer_id |-> id,
                     endpoint |-> e.endpoint]>> \o Tail(ready)
             ELSE ready

close(sw, id) ==
    LET left == PurgeClosed(sw.ready, id)
        again == \E i \in 1..Len(left) :
                     /\ left[i].type = "NodeEvent"
                     /\ left[i].peer_id = id
                     /\ left[i].event.type = "Useless"
    IN  [sw EXCEPT !.nodes = MapRemove(@, id),
                   !.inbox = MapRemove(@, id),
                   !.ready = left,
                   !.useless = IF again THEN @ ELSE @ \ {id}]

\* one candidate per listener: the observed ip with the listener's port
nat_traversal(sw, observed) ==
    LET ok(l) == Len(l) >= 2 /\ l[1].proto = "ip4" /\ l[2].proto = "tcp"
                 /\ Len(observed) >= 1 /\ observed[1].proto = "ip4"
        usable == SelectSeq(sw.listeners, ok)
    IN  [i \in 1..Len(usable) |-> <<observed[1], usable[i][2]>>]

accept(sw, incoming) ==
    [sw EXCEPT !.accepting = @ \cup {incoming.send_back_addr}]

respond(sw, requester, listen_addrs, observed) ==
    [sw EXCEPT !.responses = Append(@, [to |-> requester,
                                        listen_addrs |-> listen_addrs,
                                        observed_addr |-> observed])]

\* swarm.poll(): NotReady, or the next raw event; the swarm's view of who is
\* connected changes as it reports the event
swarm_poll(sw) ==
    IF sw.ready = <<>> THEN [ready |-> FALSE, sw |-> sw]
    ELSE LET e == Head(sw.ready)
             s1 == [sw EXCEPT !.ready = Tail(@)]
             s2 == CASE e.type \in {"Connected", "Replaced"} ->
                          [s1 EXCEPT !.nodes = MapInsert(@, e.peer_id, e.endpoint),
                                     !.inbox = MapInsert(@, e.peer_id, <<>>)]
                     [] e.type \in {"NodeClosed", "NodeError"} ->
                          [s1 EXCEPT !.nodes = MapRemove(@, e.peer_id),
                                     !.inbox = MapRemove(@, e.peer_id)]
                     [] e.type = "ListenerClosed" ->
                          [s1 EXCEPT !.listeners =
                              SelectSeq(@, LAMBDA l : l # e.listen_addr)]
                     [] OTHER -> s1
         IN  [ready |-> TRUE, event |-> e, sw |-> s2]

\* ------------------------------------------------------------------ Service
\* The operators below take and return the service as a record s of its
\* fields (connected_nodes, listening_address, need_connect, swarm,
\* service_handle) plus log, the record of what the running operation did.

\* what an operation can change and a caller can observe
View(s) == [connected_nodes |-> s.connected_nodes,
            listening_address |-> s.listening_address,
            need_connect |-> s.need_connect,
            nodes |-> DOMAIN s.swarm.nodes,
            listeners |-> s.swarm.listeners,
            inbox |-> s.swarm.inbox,
            responses |-> s.swarm.responses,
            handle |-> s.service_handle]

\* log entry of one step: what was applied and the view before it (the view
\* after it is the next entry's, or that of the state the operation ends in)
Logged(s0, what, s1) ==
    [s1 EXCEPT !.log = Append(@, [what |-> what, pre |-> View(s0)])]

SendCustomMessage(protocol, data) ==
    [type |-> "SendCustomMessage", protocol |-> protocol, data |-> data]

send_custom_message(s, node, protocol, data) ==
    IF as_connected(s.swarm, node)
    THEN [s EXCEPT !.swarm = send_event(@, node, SendCustomMessage(protocol, data))]
    ELSE s

\* mutant: the payload goes to the peers of the registry only
broadcast_registered(s, protocol, data) ==
    [s EXCEPT !.swarm.inbox =
         [p \in DOMAIN @ |->
              IF p \in DOMAIN s.connected_nodes
              THEN Append(@[p], SendCustomMessage(protocol, data))
              ELSE @[p]]]

broadcast(s, protocol, data) ==
    [s EXCEPT !.swarm = broadcast_event(@, SendCustomMessage(protocol, data))]

listen_on(s, addr) ==
    LET r == swarm_listen_on(s.swarm, addr)
    IN  IF r.ok
        THEN [ok |-> TRUE, addr |-> Append(r.addr, P2p(local_peer_id)),
              s |-> [s EXCEPT !.swarm = r.sw]]
        ELSE [ok |-> FALSE, addr |-> r.addr, s |-> s]

dial(s, addr) ==
    LET r == swarm_dial(s.swarm, addr)
    IN  [ok |-> r.ok, addr |-> r.addr, s |-> [s EXCEPT !.swarm = r.sw]]

\* mutant: the entry is removed only when there is no connection to close
drop_node_else(s, id) ==
    IF as_connected(s.swarm, id)
    THEN [s EXCEPT !.swarm = close(@, id)]
    ELSE [s EXCEPT !.connected_nodes = MapRemove(@, id)]

\* mutant: the connection is closed, the entry stays
drop_node_keeps_entry(s, id) ==
    IF as_connected(s.swarm, id)
    THEN [s EXCEPT !.swarm = close(@, id)]
    ELSE s

drop_node(s, id) ==
    LET s1 == [s EXCEPT !.connected_nodes = MapRemove(@, id)]
    IN  IF as_connected(s1.swarm, id)
        THEN [s1 EXCEPT !.swarm = close(@, id)]
        ELSE s1

\* the four drains of handle_hook
RECURSIVE DrainDialers(_)
DrainDialers(s) ==
    IF s.service_handle.dialers = <<>> THEN s
    ELSE LET address == Head(s.service_handle.dialers)
             s1 == [s EXCEPT !.service_handle.dialers = Tail(@)]
             r == swarm_dial(s1.swarm, address)
             s2 == IF r.ok THEN [s1 EXCEPT !.swarm = r.sw]
                   ELSE [s1 EXCEPT !.need_connect = Append(@, r.addr)]
         IN  DrainDialers(Logged(s, [kind |-> "dial", address |-> address,
                                      ok |-> r.ok], s2))

RECURSIVE DrainListens(_)
DrainListens(s) ==
    IF s.service_handle.listens = <<>> THEN s
    ELSE LET address == Head(s.service_handle.listens)
             s1 == [s EXCEPT !.service_handle.listens = Tail(@)]
             r == swarm_listen_on(s1.swarm, address)
             s2 == IF r.ok
                   THEN [s1 EXCEPT !.swarm = r.sw,
                                   !.listening_address = Append(@, r.addr)]
                   ELSE s1
         IN  DrainListens(Logged(s, [kind |-> "listen", address |-> address,
                                      ok |-> r.ok], s2))

RECURSIVE DrainDisconnects(_)
DrainDisconnects(s) ==
    IF s.service_handle.disconnects = <<>> THEN s
    ELSE LET id == Head(s.service_handle.disconnects)
             s1 == [s EXCEPT !.service_handle.disconnects = Tail(@)]
         IN  DrainDisconnects(Logged(s, [kind |-> "disconnect", id |-> id],
                                     drop_node(s1, id)))

RECURSIVE SendAll(_, _)
SendAll(s, batch) ==
    IF batch = <<>> THEN s
    ELSE LET m == Head(batch)
             s1 == IF m.some
                   THEN send_custom_message(s, m.id, m.protocol, m.data)
                   ELSE broadcast(s, m.protocol, m.data)
         IN  SendAll(Logged(s, [kind |-> "send", message |-> m], s1), Tail(batch))

SendMessages(s) ==
    SendAll([s EXCEPT !.service_handle.messages = <<>>],
            s.service_handle.messages)

\* mutant: the disconnects are drained before the dials and listens
handle_hook_disconnects_first(s) ==
    SendMessages(DrainListens(DrainDialers(DrainDisconnects(s))))

handle_hook(s) ==
    SendMessages(DrainDisconnects(DrainListens(DrainDialers(s))))

\* mutant: the registry is not consulted, the swarm's endpoint is reported
respond_to_identify_request_unchecked(s, requester) ==
    IF requester \in DOMAIN s.swarm.nodes
    THEN [s EXCEPT !.swarm = respond(@, requester, s.listening_address,
                                     s.swarm.nodes[requester].address)]
    ELSE s

respond_to_identify_request(s, requester) ==
    IF requester \in DOMAIN s.connected_nodes
    THEN [s EXCEPT !.swarm = respond(@, requester, s.listening_address,
                                     s.connected_nodes[requester].address)]
    ELSE s

RECURSIVE AddEach(_, _)
AddEach(listening, addrs) ==
    IF addrs = <<>> THEN listening
    ELSE LET addr == Head(addrs)
         IN  IF \E i \in 1..Len(listening) : listening[i] = addr
             THEN AddEach(listening, Tail(addrs))
             ELSE AddEach(Append(listening, addr), Tail(addrs))

\* mutant: every derived address is pushed, known or not
add_observed_addr_no_dedup(s, address) ==
    [s EXCEPT !.listening_address = @ \o nat_traversal(s.swarm, address)]

add_observed_addr(s, address) ==
    [s EXCEPT !.listening_address = AddEach(@, nat_traversal(s.swarm, address))]

NodeClosed(id) == [type |-> "NodeClosed", id |-> id]

\* mutant: a closed protocol is taken for a closed connection, an opened
\* protocol is handed on with protocol and version swapped, and the
\* identify events are ignored
event_handle_confused(s, peer_id, event) ==
    CASE event.type = "CustomProtocolOpen" ->
             [s |-> s, out |-> <<[type |-> "CustomProtocolOpen", id |-> peer_id,
                                  protocol |-> event.version,
                                  version |-> event.protocol]>>]
      [] event.type = "CustomMessage" ->
             [s |-> s, out |-> <<[type |-> "CustomMessage", id |-> peer_id,
                                  protocol |-> event.protocol,
                                  data |-> event.data]>>]
      [] event.type = "CustomProtocolClosed" ->
             [s |-> [s EXCEPT !.connected_nodes = MapRemove(@, peer_id)],
              out |-> <<[type |-> "CustomProtocolClosed", id |-> peer_id,
                         protocol |-> event.protocol]>>]
      [] event.type = "Useless" ->
             [s |-> [s EXCEPT !.connected_nodes = MapRemove(@, peer_id)],
              out |-> <<NodeClosed(peer_id)>>]
      [] event.type \in {"PingStart", "PingSuccess"} ->
             [s |-> s, out |-> <<>>]
      [] event.type = "IdentificationRequest" ->
             [s |-> s, out |-> <<>>]
      [] event.type = "Identified" ->
             [s |-> s,
              out |-> <<[type |-> "NodeInfo", id |-> peer_id,
                         listen_address |-> event.listen_addrs]>>]

\* returns the service and the Option<ServiceEvent> as a sequence of 0 or 1
event_handle(s, peer_id, event) ==
    CASE event.type = "CustomProtocolOpen" ->
             [s |-> s, out |-> <<[type |-> "CustomProtocolOpen", id |-> peer_id,
                                  protocol |-> event.protocol,
                                  version |-> event.version]>>]
      [] event.type = "CustomMessage" ->
             [s |-> s, out |-> <<[type |-> "CustomMessage", id |-> peer_id,
                                  protocol |-> event.protocol,
                                  data |-> event.data]>>]
      [] event.type = "CustomProtocolClosed" ->
             [s |-> s, out |-> <<[type |-> "CustomProtocolClosed", id |-> peer_id,
                                  protocol |-> event.protocol]>>]
      [] event.type = "Useless" ->
             [s |-> [s EXCEPT !.connected_nodes = MapRemove(@, peer_id)],
              out |-> <<NodeClosed(peer_id)>>]
      [] event.type \in {"PingStart", "PingSuccess"} ->
             [s |-> s, out |-> <<>>]
      [] event.type = "IdentificationRequest" ->
             [s |-> respond_to_identify_request(s, peer_id), out |-> <<>>]
      [] event.type = "Identified" ->
             [s |-> add_observed_addr(s, event.observed_addr),
              out |-> <<[type |-> "NodeInfo", id |-> peer_id,
                         listen_address |-> event.listen_addrs]>>]

\* the arms of the match in poll_swarm, one per RawSwarmEvent: each gives the
\* service after the raw event and the event to return (none: the loop
\* continues)
RawConnected(s, e) ==
    [s |-> [s EXCEPT !.connected_nodes =
                MapInsert(@, e.peer_id, [endpoint |-> e.endpoint.role,
                                         address |-> e.endpoint.address])],
     out |-> <<>>]

\* mutant: a closed dialer connection is queued for a redial
RawNodeClosed_requeues(s, e) ==
    [s |-> [s EXCEPT !.connected_nodes = MapRemove(@, e.peer_id),
                     !.need_connect =
                         IF e.peer_id \in DOMAIN s.connected_nodes
                            /\ s.connected_nodes[e.peer_id].endpoint = "Dialer"
                         THEN Append(@, s.connected_nodes[e.peer_id].address)
                         ELSE @],
     out |-> <<NodeClosed(e.peer_id)>>]

RawNodeClosed(s, e) ==
    [s |-> [s EXCEPT !.connected_nodes = MapRemove(@, e.peer_id)],
     out |-> <<NodeClosed(e.peer_id)>>]

RawNodeError(s, e) ==
    [s |-> [s EXCEPT !.connected_nodes = MapRemove(@, e.peer_id)],
     out |-> <<NodeClosed(e.peer_id)>>]

\* mutant: the failed address is only logged
RawDialError_forgets(s, e) == [s |-> s, out |-> <<>>]

RawDialError(s, e) ==
    [s |-> [s EXCEPT !.need_connect = Append(@, e.multiaddr)], out |-> <<>>]

RawIncomingConnection(s, e) ==
    [s |-> [s EXCEPT !.swarm = accept(@, e)], out |-> <<>>]

RawIncomingConnectionError(s, e) == [s |-> s, out |-> <<>>]

\* mutant: the replaced peer's address is queued whatever its role
RawReplaced_any_role(s, e) ==
    [s |-> IF e.peer_id \in DOMAIN s.connected_nodes
           THEN [s EXCEPT !.connected_nodes = MapRemove(@, e.peer_id),
                          !.need_connect =
                              Append(@, s.connected_nodes[e.peer_id].address)]
           ELSE s,
     out |-> <<>>]

RawReplaced(s, e) ==
    [s |-> IF e.peer_id \in DOMAIN s.connected_nodes
           THEN LET info == s.connected_nodes[e.peer_id]
                    s1 == [s EXCEPT !.connected_nodes = MapRemove(@, e.peer_id)]
                IN  IF info.endpoint = "Dialer"
                    THEN [s1 EXCEPT !.need_connect = Append(@, info.address)]
                    ELSE s1
           ELSE s,
     out |-> <<>>]

RawListenerClosed(s, e) == [s |-> s, out |-> <<>>]

RawArm(s, e) ==
    CASE e.type = "Connected" -> RawConnected(s, e)
      [] e.type = "NodeEvent" -> event_handle(s, e.peer_id, e.event)
      [] e.type = "NodeClosed" -> RawNodeClosed(s, e)
      [] e.type = "NodeError" -> RawNodeError(s, e)
      [] e.type \in {"DialError", "UnknownPeerDialError"} -> RawDialError(s, e)
      [] e.type = "IncomingConnection" -> RawIncomingConnection(s, e)
      [] e.type = "IncomingConnectionError" -> RawIncomingConnectionError(s, e)
      [] e.type = "Replaced" -> RawReplaced(s, e)
      [] e.type = "ListenerClosed" -> RawListenerClosed(s, e)

\* the raw events that report a failure
ErrorKinds == {"NodeError", "NodeClosed", "DialError", "UnknownPeerDialError",
               "IncomingConnectionError", "ListenerClosed"}

\* mutant: a node error is returned as the stream's error
RECURSIVE poll_swarm_fails_on_error(_)
poll_swarm_fails_on_error(s) ==
    LET p == swarm_poll(s.swarm)
    IN  IF ~p.ready
        THEN [err |-> FALSE, ready |-> FALSE, value |-> <<>>, s |-> s]
        ELSE LET r == RawArm([s EXCEPT !.swarm = p.sw], p.event)
                 s1 == Logged(s, [kind |-> "raw", raw |-> p.event, out |-> r.out], r.s)
             IN  IF p.event.type = "NodeError"
                 THEN [err |-> TRUE, ready |-> FALSE, value |-> <<>>, s |-> s1]
                 ELSE IF r.out # <<>>
                 THEN [err |-> FALSE, ready |-> TRUE, value |-> r.out, s |-> s1]
                 ELSE poll_swarm_fails_on_error(s1)

\* Poll<Option<ServiceEvent>, Error>: err is the Err result, which no arm
\* returns
RECURSIVE poll_swarm(_)
poll_swarm(s) ==
    LET p == swarm_poll(s.swarm)
    IN  IF ~p.ready
        THEN [err |-> FALSE, ready |-> FALSE, value |-> <<>>, s |-> s]
        ELSE LET r == RawArm([s EXCEPT !.swarm = p.sw], p.event)
                 s1 == Logged(s, [kind |-> "raw", raw |-> p.event, out |-> r.out], r.s)
             IN  IF r.out # <<>>
                 THEN [err |-> FALSE, ready |-> TRUE, value |-> r.out, s |-> s1]
                 ELSE poll_swarm(s1)

\* mutant: the sink is handed the event twice
out_event_twice(h, value) == [h EXCEPT !.out_events = @ \o value \o value]

out_event(h, value) == [h EXCEPT !.out_events = @ \o value]

\* mutant: the return after out_event is missing
poll_falls_through(s) ==
    LET r == poll_swarm(s)
    IN  IF r.err THEN [ret |-> "Err", s |-> r.s]
        ELSE IF r.ready
        THEN [ret |-> "NotReady",
              s |-> handle_hook([r.s EXCEPT !.service_handle =
                                     out_event(@, r.value)])]
        ELSE [ret |-> "NotReady", s |-> handle_hook(r.s)]

\* mutant: the commands are drained in every cycle
poll_drains_always(s) ==
    LET r == poll_swarm(s)
    IN  IF r.err THEN [ret |-> "Err", s |-> r.s]
        ELSE IF r.ready
        THEN [ret |-> "Ready",
              s |-> handle_hook([r.s EXCEPT !.service_handle =
                                     out_event(@, r.value)])]
        ELSE [ret |-> "NotReady", s |-> handle_hook(r.s)]

\* ret is the stream's result: Err (from the ? on poll_swarm), Ready(Some(()))
\* or NotReady; Ready(None), the end of the stream, is never returned
poll(s) ==
    LET r == poll_swarm(s)
    IN  IF r.err THEN [ret |-> "Err", s |-> r.s]
        ELSE IF r.ready
        THEN [ret |-> "Ready",
              s |-> [r.s EXCEPT !.service_handle = out_event(@, r.value)]]
        ELSE [ret |-> "NotReady", s |-> handle_hook(r.s)]

\* ------------------------------------------------------------------ state
VARIABLES
    connected_nodes,    \* Service.connected_nodes: PeerId -> NodeInfo
    listening_address,  \* Service.listening_address
    need_connect,       \* Service.need_connect
    swarm,              \* Service.swarm (the RawSwarm's state)
    service_handle,     \* Service.service_handle: the pending commands, and
                        \* out_events, what the last operation gave the sink
    closed_count,       \* NodeClosed events delivered per peer since its
                        \* last raw Connected event
    steps,              \* raw events produced and commands issued so far
    known               \* peers the network or the application has named

vars == <<connected_nodes, listening_address, need_connect, swarm,
          service_handle, closed_count, steps, known>>

\* the sink and the responders have taken what earlier operations gave them
Taken(h) == [h EXCEPT !.out_events = <<>>]
Sent(sw) == [sw EXCEPT !.responses = <<>>]

\* the service as an operation finds it
St == [connected_nodes |-> connected_nodes,
       listening_address |-> listening_address,
       need_connect |-> need_connect,
       swarm |-> Sent(swarm),
       service_handle |-> Taken(service_handle),
       log |-> <<>>]

\* an operation run from the current state: its steps, the view it ends in,
\* and the swarm's ready events before and after
RunOf(op, ret, s) ==
    [op |-> op, ret |-> ret, log |-> s.log, end |-> View(s),
     ready |-> swarm.ready, ready_end |-> s.swarm.ready, s |-> s]

PollRun == LET r == poll(St) IN RunOf("poll", r.ret, r.s)

ToPeer(p, protocol, data) ==
    [some |-> TRUE, id |-> p, protocol |-> protocol, data |-> data]
ToAll(protocol, data) ==
    [some |-> FALSE, id |-> "none", protocol |-> protocol, data |-> data]

SendRun(p, protocol, data) ==
    RunOf("send_custom_message", "none",
          Logged(St, [kind |-> "send", message |-> ToPeer(p, protocol, data)],
                 send_custom_message(St, p, protocol, data)))

BroadcastRun(protocol, data) ==
    RunOf("broadcast", "none",
          Logged(St, [kind |-> "send", message |-> ToAll(protocol, data)],
                 broadcast(St, protocol, data)))

ListenOnRun(a) ==
    LET r == listen_on(St, a)
    IN  RunOf("listen_on", "none",
              Logged(St, [kind |-> "listen_on", address |-> a, ok |-> r.ok,
                          result |-> r.addr], r.s))

DialRun(a) ==
    LET r == dial(St, a)
    IN  RunOf("dial", "none",
              Logged(St, [kind |-> "dial", address |-> a, ok |-> r.ok], r.s))

\* the poll that follows the poll run from the current state
PollAgainRun ==
    LET s1 == PollRun.s
        r == poll([s1 EXCEPT !.swarm = Sent(@),
                             !.service_handle = Taken(@),
                             !.log = <<>>])
    IN  [op |-> "poll", ret |-> r.ret, log |-> r.s.log, end |-> View(r.s),
         ready |-> s1.swarm.ready, ready_end |-> r.s.swarm.ready, s |-> r.s]

DropNodeRun(p) ==
    RunOf("drop_node", "none",
          Logged(St, [kind |-> "disconnect", id |-> p], drop_node(St, p)))

\* build_service
Init ==
    /\ connected_nodes = EmptyMap
    /\ listening_address = <<>>
    /\ need_connect = <<>>
    /\ swarm = [nodes |-> EmptyMap, inbox |-> EmptyMap, dialing |-> {},
                accepting |-> {}, listeners |-> <<>>, ready |-> <<>>,
                useless |-> {}, responses |-> <<>>]
    /\ service_handle = [dialers |-> <<>>, listens |-> <<>>,
                         disconnects |-> <<>>, messages |-> <<>>,
                         out_events |-> <<>>]
    /\ closed_count = [p \in Peers |-> 0]
    /\ steps = 0
    /\ known = {}

Becomes(s) ==
    /\ connected_nodes' = s.connected_nodes
    /\ listening_address' = s.listening_address
    /\ need_connect' = s.need_connect
    /\ swarm' = s.swarm
    /\ service_handle' = s.service_handle

\* closed_count after the steps of a log
RECURSIVE Counted(_, _)
Counted(c, log) ==
    IF log = <<>> THEN c
    ELSE LET w == Head(log).what
             c1 == IF w.kind = "raw" /\ w.raw.type = "Connected"
                   THEN [c EXCEPT ![w.raw.peer_id] = 0] ELSE c
             c2 == IF w.kind = "raw" /\ w.out # <<>> /\ w.out[1].type = "NodeClosed"
                   THEN [c1 EXCEPT ![w.out[1].id] = @ + 1] ELSE c1
         IN  Counted(c2, Tail(log))

\* ------------------------------------------------------------------ the network
\* peers the swarm will report as connected once it has reported `ready`
RECURSIVE Proj(_, _)
Proj(c, ready) ==
    IF ready = <<>> THEN c
    ELSE LET e == Head(ready)
         IN  Proj(CASE e.type \in {"Connected", "Replaced"} -> c \cup {e.peer_id}
                    [] e.type \in {"NodeClosed", "NodeError"} -> c \ {e.peer_id}
                    [] OTHER -> c,
                  Tail(ready))

Live == Proj(DOMAIN swarm.nodes, swarm.ready)

\* Peer identities are opaque and interchangeable: a behaviour names them in
\* the order of PeerOrder, so a peer not named yet is the next of that order.
Nameable ==
    {PeerOrder[i] : i \in 1..IF Cardinality(known) < Len(PeerOrder)
                             THEN Cardinality(known) + 1 ELSE Len(PeerOrder)}

Produce(e, sw) ==
    /\ steps < MaxSteps
    /\ Len(swarm.ready) < MaxReady
    /\ swarm' = Sent([sw EXCEPT !.ready = Append(@, e)])
    /\ service_handle' = Taken(service_handle)
    /\ steps' = steps + 1
    /\ known' = IF e.type = "Connected" THEN known \cup {e.peer_id} ELSE known
    /\ UNCHANGED <<connected_nodes, listening_address, need_connect,
                   closed_count>>

\* an attempt in progress succeeds: as a dialer, or as a listener
Endpoints(sw) ==
    {[ep |-> Dialer(a), sw |-> [sw EXCEPT !.dialing = @ \ {a}]] : a \in sw.dialing}
    \cup {[ep |-> Listener(a), sw |-> [sw EXCEPT !.accepting = @ \ {a}]] :
              a \in sw.accepting}

NetConnected ==
    \E p \in Nameable \ Live : \E x \in Endpoints(swarm) :
        Produce([type |-> "Connected", peer_id |-> p, endpoint |-> x.ep], x.sw)

NetReplaced ==
    \E p \in Live : \E x \in Endpoints(swarm) :
        Produce([type |-> "Replaced", peer_id |-> p, endpoint |-> x.ep],
                [x.sw EXCEPT !.useless = @ \ {p}])

\* a handler reports events until it has reported Useless; it then shuts
\* down, and the connection closes
NetNodeEvent ==
    \E p \in Live \ swarm.useless : \E ev \in CITAOutEvents :
        Produce([type |-> "NodeEvent", peer_id |-> p, event |-> ev],
                IF ev.type = "Useless"
                THEN [swarm EXCEPT !.useless = @ \cup {p}] ELSE swarm)

NetNodeClosed ==
    \E p \in Live :
        Produce([type |-> "NodeClosed", peer_id |-> p],
                [swarm EXCEPT !.useless = @ \ {p}])

NetNodeError ==
    \E p \in Live :
        Produce([type |-> "NodeError", peer_id |-> p],
                [swarm EXCEPT !.useless = @ \ {p}])

NetDialError ==
    \E a \in swarm.dialing :
        Produce([type |-> "DialError", multiaddr |-> a],
                [swarm EXCEPT !.dialing = @ \ {a}])

NetUnknownPeerDialError ==
    \E a \in swarm.dialing :
        Produce([type |-> "UnknownPeerDialError", multiaddr |-> a],
                [swarm EXCEPT !.dialing = @ \ {a}])

NetIncomingConnection ==
    /\ swarm.listeners # <<>>
    /\ \E a \in RemoteAddrs :
        Produce([type |-> "IncomingConnection", send_back_addr |-> a], swarm)

NetIncomingConnectionError ==
    \E a \in swarm.accepting :
        Produce([type |-> "IncomingConnectionError", send_back_addr |-> a],
                [swarm EXCEPT !.accepting = @ \ {a}])

NetListenerClosed ==
    \E i \in 1..Len(swarm.listeners) :
        /\ \A j \in 1..Len(swarm.ready) :
               swarm.ready[j] # [type |-> "ListenerClosed",
                                 listen_addr |-> swarm.listeners[i]]
        /\ Produce([type |-> "ListenerClosed",
                    listen_addr |-> swarm.listeners[i]], swarm)

\* ------------------------------------------------------------------ the application
Messages ==
    {ToPeer(p, protocol, data) :
         p \in Peers, protocol \in Protocols, data \in Payloads}
    \cup {ToAll(protocol, data) : protocol \in Protocols, data \in Payloads}

Offer(h, named) ==
    /\ steps < MaxSteps
    /\ service_handle' = Taken(h)
    /\ swarm' = Sent(swarm)
    /\ steps' = steps + 1
    /\ known' = known \cup named
    /\ UNCHANGED <<connected_nodes, listening_address, need_connect,
                   closed_count>>

OfferDial ==
    \E a \in DialAddrs :
        Offer([service_handle EXCEPT !.dialers = Append(@, a)], {})

OfferListen ==
    \E a \in ListenAddrs :
        Offer([service_handle EXCEPT !.listens = Append(@, a)], {})

OfferDisconnect ==
    \E p \in Nameable :
        Offer([service_handle EXCEPT !.disconnects = Append(@, p)], {p})

OfferSend ==
    \E m \in Messages :
        /\ m.some => m.id \in Nameable
        /\ Offer([service_handle EXCEPT !.messages = Append(@, m)],
                 IF m.some THEN {m.id} ELSE {})

\* ------------------------------------------------------------------ operations
\* Stream::poll
Poll ==
    LET r == PollRun
    IN  /\ Becomes(r.s)
        /\ closed_count' = Counted(closed_count, r.log)
        /\ UNCHANGED <<steps, known>>

\* the public operations, called by the owner of the service
Called(r, named) ==
    /\ steps < MaxSteps
    /\ steps' = steps + 1
    /\ known' = known \cup named
    /\ Becomes(r.s)
    /\ UNCHANGED closed_count

CallSend ==
    \E p \in Nameable, protocol \in Protocols, data \in Payloads :
        Called(SendRun(p, protocol, data), {p})

CallBroadcast ==
    \E protocol \in Protocols, data \in Payloads :
        Called(BroadcastRun(protocol, data), {})

CallListenOn == \E a \in ListenAddrs : Called(ListenOnRun(a), {})

CallDial == \E a \in DialAddrs : Called(DialRun(a), {})

CallDropNode == \E p \in Nameable : Called(DropNodeRun(p), {p})

Next ==
    \/ NetConnected \/ NetReplaced \/ NetNodeEvent \/ NetNodeClosed
    \/ NetNodeError \/ NetDialError \/ NetUnknownPeerDialError
    \/ NetIncomingConnection \/ NetIncomingConnectionError
    \/ NetListenerClosed
    \/ OfferDial \/ OfferListen \/ OfferDisconnect \/ OfferSend
    \/ Poll
    \/ CallSend \/ CallBroadcast \/ CallListenOn \/ CallDial \/ CallDropNode

Spec == Init /\ [][Next]_vars


\* ------------------------------------------------------------------ reading a run
\* Every claim below is about the operations as run from a reachable state:
\* PollRun is the step Poll takes from it, DropNodeRun(p), SendRun(..) the
\* steps CallDropNode and CallSend take.
StepIds(R) == 1..Len(R.log)
What(R, i) == R.log[i].what
Pre(R, i) == R.log[i].pre
Post(R, i) == IF i < Len(R.log) THEN R.log[i + 1].pre ELSE R.end

DropRuns == {DropNodeRun(p) : p \in Peers}
SendRuns ==
    {SendRun(p, protocol, data) :
         p \in Peers, protocol \in Protocols, data \in Payloads}

\* what a command or raw event may change, the handle's queues aside
Frame(v) == [connected_nodes |-> v.connected_nodes,
             listening_address |-> v.listening_address,
             need_connect |-> v.need_connect,
             nodes |-> v.nodes,
             inbox |-> v.inbox,
             out_events |-> v.handle.out_events]

Registered(v, id) == id \in DOMAIN v.connected_nodes

IsRaw(R, i, types) == What(R, i).kind = "raw" /\ What(R, i).raw.type \in types

IsPrefix(a, b) == Len(a) <= Len(b) /\ SubSeq(b, 1, Len(a)) = a

\* A poll processes only raw events that are ready and applies only commands
\* that are pending: what is ready and pending in the current state tells
\* which steps the poll run from it can have.
HasReady(types) ==
    \E j \in 1..Len(swarm.ready) : swarm.ready[j].type \in types

HasReadyEvent(types) ==
    \E j \in 1..Len(swarm.ready) :
        /\ swarm.ready[j].type = "NodeEvent"
        /\ swarm.ready[j].event.type \in types

\* the commands a handle has pending
Pending(h) == [dialers |-> h.dialers, listens |-> h.listens,
               disconnects |-> h.disconnects, messages |-> h.messages]

NoPending == [dialers |-> <<>>, listens |-> <<>>, disconnects |-> <<>>,
              messages |-> <<>>]

\* the poll run from the current state has a step
Busy == swarm.ready # <<>> \/ Pending(service_handle) # NoPending

\* ------------------------------------------------------------------ C1
\* C1: a peer has an entry in connected_nodes if and only if the swarm
\* reports it as connected.
C1_RegistryIffConnected == DOMAIN connected_nodes = DOMAIN swarm.nodes

\* ------------------------------------------------------------------ C2
\* a raw closed or error event for a registered peer
ClosedStep(R, i) ==
    /\ IsRaw(R, i, {"NodeClosed", "NodeError"})
    /\ Registered(Pre(R, i), What(R, i).raw.peer_id)

\* a disconnect (drained from the handle, or drop_node called) of a
\* registered peer
DropStep(R, i) ==
    What(R, i).kind = "disconnect" /\ Registered(Pre(R, i), What(R, i).id)

ClosedStepOk(R, i) ==
    /\ ~Registered(Post(R, i), What(R, i).raw.peer_id)
    /\ Post(R, i).handle.out_events =
           Append(Pre(R, i).handle.out_events,
                  NodeClosed(What(R, i).raw.peer_id))

\* C2 as stated: each of the three teardown triggers of a registered peer
\* removes its entry and delivers exactly one NodeClosed for it.
C2_EveryTeardownDeliversNodeClosed ==
    \A R \in {PollRun} \cup DropRuns : \A i \in StepIds(R) :
        /\ ClosedStep(R, i) => ClosedStepOk(R, i)
        /\ DropStep(R, i) =>
               /\ ~Registered(Post(R, i), What(R, i).id)
               /\ R.end.handle.out_events = <<NodeClosed(What(R, i).id)>>

\* C2 (amended): a raw closed or error event of a registered peer removes its
\* entry and delivers exactly one NodeClosed for it; an explicit disconnect
\* removes the entry and closes the connection and delivers no event, in its
\* step or in the rest of the operation.
C2_Teardown ==
    \A R \in {PollRun} \cup DropRuns : \A i \in StepIds(R) :
        /\ ClosedStep(R, i) => ClosedStepOk(R, i)
        /\ DropStep(R, i) =>
               /\ ~Registered(Post(R, i), What(R, i).id)
               /\ What(R, i).id \notin Post(R, i).nodes
               /\ Post(R, i).handle.out_events = Pre(R, i).handle.out_events
               /\ R.end.handle.out_events = <<>>

\* a poll that drains the disconnect of a registered, connected peer
C2_Witness ==
    \E i \in StepIds(PollRun) :
        /\ DropStep(PollRun, i)
        /\ What(PollRun, i).id \in Pre(PollRun, i).nodes

\* ------------------------------------------------------------------ C3
\* C3: at most one NodeClosed is delivered for a peer between two raw
\* Connected events for it.
C3_AtMostOneNodeClosed == \A p \in Peers : closed_count[p] <= 1

\* ------------------------------------------------------------------ C4
\* a send to, or a disconnect of, a peer with no entry in the registry
AbsentPeerStep(R, i) ==
    \/ What(R, i).kind = "disconnect" /\ ~Registered(Pre(R, i), What(R, i).id)
    \/ /\ What(R, i).kind = "send"
       /\ What(R, i).message.some
       /\ ~Registered(Pre(R, i), What(R, i).message.id)

\* C4: send and drop for a peer with no registry entry change nothing: no
\* payload enqueued, no connection closed, no event, registry and both
\* address lists unchanged.
C4_AbsentPeerNoOp ==
    \A R \in {PollRun} \cup DropRuns \cup SendRuns : \A i \in StepIds(R) :
        AbsentPeerStep(R, i) => Frame(Post(R, i)) = Frame(Pre(R, i))

\* ------------------------------------------------------------------ C5
\* two disconnects of the same peer in a row
DropTwice(R, i) ==
    /\ i + 1 \in StepIds(R)
    /\ What(R, i).kind = "disconnect"
    /\ What(R, i + 1).kind = "disconnect"
    /\ What(R, i).id = What(R, i + 1).id

\* C5: dropping a peer twice leaves what dropping it once leaves: drop_node
\* called twice from the current state, for every peer, and every drain that
\* disconnects the same peer twice in a row.
C5_DropIdempotent ==
    /\ \A p \in Peers : drop_node(drop_node(St, p), p) = drop_node(St, p)
    /\ Len(service_handle.disconnects) >= 2 =>
           LET R == PollRun
           IN  \A i \in StepIds(R) :
                   DropTwice(R, i) =>
                       Frame(Post(R, i + 1)) = Frame(Post(R, i))

\* a poll that drains two disconnects of a registered, connected peer
C5_Witness ==
    \E i \in StepIds(PollRun) :
        /\ DropTwice(PollRun, i)
        /\ Registered(Pre(PollRun, i), What(PollRun, i).id)
        /\ What(PollRun, i).id \in Pre(PollRun, i).nodes
        /\ Frame(Post(PollRun, i)) # Frame(Pre(PollRun, i))

\* ------------------------------------------------------------------ C6
\* the raw events that translate to an Application Event
Translatable(e) ==
    \/ e.type \in {"NodeClosed", "NodeError"}
    \/ /\ e.type = "NodeEvent"
       /\ e.event.type \in {"CustomProtocolOpen", "CustomMessage",
                            "CustomProtocolClosed", "Useless", "Identified"}

\* index of the first translatable event of a queue, 0 if there is none
FirstTranslatable(ready) ==
    IF \E i \in 1..Len(ready) : Translatable(ready[i])
    THEN CHOOSE i \in 1..Len(ready) :
             /\ Translatable(ready[i])
             /\ \A j \in 1..(i - 1) : ~Translatable(ready[j])
    ELSE 0

\* the events an operation delivered to the sink
Delivered(R) == R.end.handle.out_events

\* C6: a poll delivers exactly one event when a translatable raw event is
\* ready (the events behind it stay ready), none otherwise, and returns
\* Ready exactly when it delivered one.
C6_OneEventPerPoll ==
    LET R == PollRun
        k == FirstTranslatable(R.ready)
    IN  /\ Len(Delivered(R)) <= 1
        /\ k > 0 =>
               /\ Len(Delivered(R)) = 1
               /\ Delivered(R)[1].id = R.ready[k].peer_id
               /\ R.ready_end = SubSeq(R.ready, k + 1, Len(R.ready))
        /\ k = 0 => Delivered(R) = <<>>
        /\ (R.ret = "Ready") <=> (Len(Delivered(R)) = 1)

\* a poll that finds two translatable events ready and delivers the first
C6_Witness ==
    LET R == PollRun
    IN  /\ Len(R.ready) >= 2
        /\ FirstTranslatable(R.ready) = 1
        /\ R.ready_end # <<>>
        /\ Translatable(R.ready_end[1])
        /\ Len(Delivered(R)) = 1

\* ------------------------------------------------------------------ C7
Rank(kind) ==
    CASE kind = "raw" -> 0
      [] kind = "dial" -> 1
      [] kind = "listen" -> 2
      [] kind = "disconnect" -> 3
      [] kind = "send" -> 4

Kinds(R) == {What(R, i).kind : i \in StepIds(R)}

\* C7: in one poll every dial is applied before every listen, every listen
\* before every disconnect, and every disconnect before the send batch; a
\* poll that returns NotReady leaves no command pending.
C7_DrainOrder ==
    LET R == PollRun
    IN  /\ \A i, j \in StepIds(R) :
               i < j => Rank(What(R, i).kind) <= Rank(What(R, j).kind)
        /\ R.ret = "NotReady" =>
               /\ R.end.handle.dialers = <<>>
               /\ R.end.handle.listens = <<>>
               /\ R.end.handle.disconnects = <<>>
               /\ R.end.handle.messages = <<>>

\* one poll that applies a dial, a listen, a disconnect and a send
C7_Witness == {"dial", "listen", "disconnect", "send"} \subseteq Kinds(PollRun)

\* ------------------------------------------------------------------ C8
DialerEntry(v, id) ==
    Registered(v, id) /\ v.connected_nodes[id].endpoint = "Dialer"

\* C8: a raw Replaced event for a peer recorded as Dialer appends the
\* recorded address to need_connect; for a Listener or an unrecorded peer
\* need_connect is unchanged; no event is delivered for it.
C8_Replaced ==
    LET R == PollRun
    IN  HasReady({"Replaced"}) =>
        \A i \in StepIds(R) :
            IsRaw(R, i, {"Replaced"}) =>
                LET x == What(R, i).raw.peer_id
                IN  /\ DialerEntry(Pre(R, i), x) =>
                           Post(R, i).need_connect =
                               Append(Pre(R, i).need_connect,
                                      Pre(R, i).connected_nodes[x].address)
                    /\ ~DialerEntry(Pre(R, i), x) =>
                           Post(R, i).need_connect = Pre(R, i).need_connect
                    /\ What(R, i).out = <<>>
                    /\ Post(R, i).handle.out_events =
                           Pre(R, i).handle.out_events

\* a poll that sees the connection of a peer recorded as Dialer replaced
C8_Witness ==
    \E i \in StepIds(PollRun) :
        /\ IsRaw(PollRun, i, {"Replaced"})
        /\ DialerEntry(Pre(PollRun, i), What(PollRun, i).raw.peer_id)
        /\ What(PollRun, i).raw.endpoint.role = "Listener"

\* ------------------------------------------------------------------ C9
InSeq(x, q) == \E k \in 1..Len(q) : q[k] = x

\* C9 as stated, its particular case: after a raw closed event for a peer
\* recorded as Dialer, the recorded address is in need_connect.
C9_ClosedDialerQueued ==
    LET R == PollRun
    IN  \A i \in StepIds(R) :
            (/\ IsRaw(R, i, {"NodeClosed"})
             /\ DialerEntry(Pre(R, i), What(R, i).raw.peer_id))
                => InSeq(Pre(R, i).connected_nodes
                             [What(R, i).raw.peer_id].address,
                         Post(R, i).need_connect)

\* a dial the swarm refused at once, drained from the handle
FailedHandleDial(R, i) == What(R, i).kind = "dial" /\ ~What(R, i).ok

\* C9 (amended): need_connect only grows; it gets the address of every
\* raw dial error, of every handle-offered dial the swarm refuses and of
\* every Dialer-role peer whose connection was replaced; a raw closed or
\* error event leaves it unchanged.
C9_ReconnectQueue ==
    LET R == PollRun
    IN  Busy =>
        \A i \in StepIds(R) :
            /\ IsPrefix(Pre(R, i).need_connect, Post(R, i).need_connect)
            /\ IsRaw(R, i, {"DialError", "UnknownPeerDialError"}) =>
                   Post(R, i).need_connect =
                       Append(Pre(R, i).need_connect, What(R, i).raw.multiaddr)
            /\ FailedHandleDial(R, i) =>
                   Post(R, i).need_connect =
                       Append(Pre(R, i).need_connect, What(R, i).address)
            /\ (/\ IsRaw(R, i, {"Replaced"})
                /\ DialerEntry(Pre(R, i), What(R, i).raw.peer_id))
                   => Post(R, i).need_connect =
                          Append(Pre(R, i).need_connect,
                                 Pre(R, i).connected_nodes
                                     [What(R, i).raw.peer_id].address)
            /\ IsRaw(R, i, {"NodeClosed", "NodeError"}) =>
                   Post(R, i).need_connect = Pre(R, i).need_connect

\* a poll that sees a peer recorded as Dialer closed
C9_Witness ==
    \E i \in StepIds(PollRun) :
        /\ IsRaw(PollRun, i, {"NodeClosed"})
        /\ DialerEntry(Pre(PollRun, i), What(PollRun, i).raw.peer_id)
        /\ ~Registered(Post(PollRun, i), What(PollRun, i).raw.peer_id)

\* ------------------------------------------------------------------ C10
\* C10: a raw dial error, a raw unknown-peer dial error and a handle-offered
\* dial the swarm refuses each append the address to need_connect, leave
\* the registry unchanged and deliver no event.
C10_DialFailure ==
    LET R == PollRun
    IN  (\/ HasReady({"DialError", "UnknownPeerDialError"})
         \/ service_handle.dialers # <<>>) =>
        \A i \in StepIds(R) :
            /\ IsRaw(R, i, {"DialError", "UnknownPeerDialError"}) =>
                   /\ Post(R, i).need_connect =
                          Append(Pre(R, i).need_connect,
                                 What(R, i).raw.multiaddr)
                   /\ Post(R, i).connected_nodes = Pre(R, i).connected_nodes
                   /\ What(R, i).out = <<>>
                   /\ Post(R, i).handle.out_events =
                          Pre(R, i).handle.out_events
            /\ FailedHandleDial(R, i) =>
                   /\ Post(R, i).need_connect =
                          Append(Pre(R, i).need_connect, What(R, i).address)
                   /\ Post(R, i).connected_nodes = Pre(R, i).connected_nodes
                   /\ Post(R, i).handle.out_events =
                          Pre(R, i).handle.out_events
                   /\ Delivered(R) = <<>>

\* one poll that sees a raw dial error, with a peer registered, and then
\* drains a dial the swarm refuses
C10_Witness ==
    /\ connected_nodes # EmptyMap
    /\ \E i \in StepIds(PollRun) :
           IsRaw(PollRun, i, {"DialError", "UnknownPeerDialError"})
    /\ \E i \in StepIds(PollRun) : FailedHandleDial(PollRun, i)

\* ------------------------------------------------------------------ C11
IsNodeEvent(R, i, types) ==
    IsRaw(R, i, {"NodeEvent"}) /\ What(R, i).raw.event.type \in types

\* what the responders were handed, with what Frame shows
Answered(v) == [frame |-> Frame(v), responses |-> v.responses]

\* C11: an identify request from a peer with no registry entry gets no
\* response and changes nothing; from a peer with an entry it gets exactly
\* one response, carrying the whole listening_address of that moment and
\* the requester's recorded address; neither delivers an event.
C11_IdentifyRequest ==
    LET R == PollRun
    IN  HasReadyEvent({"IdentificationRequest"}) =>
        \A i \in StepIds(R) :
            IsNodeEvent(R, i, {"IdentificationRequest"}) =>
                LET x == What(R, i).raw.peer_id
                    pre == Pre(R, i)
                IN  /\ What(R, i).out = <<>>
                    /\ Frame(Post(R, i)) = Frame(pre)
                    /\ ~Registered(pre, x) =>
                           Answered(Post(R, i)) = Answered(pre)
                    /\ Registered(pre, x) =>
                           Post(R, i).responses =
                               Append(pre.responses,
                                      [to |-> x,
                                       listen_addrs |-> pre.listening_address,
                                       observed_addr |->
                                           pre.connected_nodes[x].address])

\* a poll that answers a registered peer while the service is listening
C11_Witness ==
    \E i \in StepIds(PollRun) :
        /\ IsNodeEvent(PollRun, i, {"IdentificationRequest"})
        /\ Registered(Pre(PollRun, i), What(PollRun, i).raw.peer_id)
        /\ Pre(PollRun, i).listening_address # <<>>
        /\ Len(Post(PollRun, i).responses) = 1

\* ------------------------------------------------------------------ C12
ListenOnRuns == {ListenOnRun(a) : a \in ListenAddrs}

EndsInLocalPeer(addr) == addr # <<>> /\ addr[Len(addr)] = P2p(local_peer_id)

\* the public listen operation: on success the returned address ends in the
\* local peer identity, on failure the address comes back unchanged; the
\* listening addresses are unchanged either way
PublicListenOk(R, i) ==
    What(R, i).kind = "listen_on" =>
        /\ What(R, i).ok => EndsInLocalPeer(What(R, i).result)
        /\ ~What(R, i).ok => What(R, i).result = What(R, i).address
        /\ ~What(R, i).ok =>
               Post(R, i).listening_address = Pre(R, i).listening_address

\* a listen address drained from the handle: on success exactly one address
\* is appended and it ends in the local peer identity, on failure the
\* listening addresses are unchanged
DrainedListenOk(R, i) ==
    What(R, i).kind = "listen" =>
        /\ What(R, i).ok =>
               /\ Len(Post(R, i).listening_address) =
                      Len(Pre(R, i).listening_address) + 1
               /\ IsPrefix(Pre(R, i).listening_address,
                           Post(R, i).listening_address)
               /\ EndsInLocalPeer(Post(R, i).listening_address
                                      [Len(Post(R, i).listening_address)])
        /\ ~What(R, i).ok =>
               Post(R, i).listening_address = Pre(R, i).listening_address

\* C12: whenever a listen succeeds, through the public operation or through
\* an address drained from the handle, the resulting address (returned, or
\* appended to listening_address) ends in the local peer identity; on
\* failure the address is returned unchanged and listening_address is
\* unchanged.
C12_ListenNamesLocalPeer ==
    \A R \in {PollRun} \cup ListenOnRuns : \A i \in StepIds(R) :
        PublicListenOk(R, i) /\ DrainedListenOk(R, i)

\* ------------------------------------------------------------------ C13
\* the addresses a step appended to listening_address
Added(R, i) ==
    SubSeq(Post(R, i).listening_address,
           Len(Pre(R, i).listening_address) + 1,
           Len(Post(R, i).listening_address))

\* the addresses nat_traversal derives at step i from an observed address
Derived(R, i, observed) ==
    nat_traversal([listeners |-> Pre(R, i).listeners], observed)

\* no step of the run R removes or reorders an element of
\* listening_address, and a step that learns an observed address appends
\* exactly the derived addresses that are not yet in it, each once
AppendOnly(R) ==
    \A i \in StepIds(R) :
        /\ IsPrefix(Pre(R, i).listening_address, Post(R, i).listening_address)
        /\ IsRaw(R, i, {"ListenerClosed"}) =>
               Post(R, i).listening_address = Pre(R, i).listening_address
        /\ IsNodeEvent(R, i, {"Identified"}) =>
               LET cand == Derived(R, i, What(R, i).raw.event.observed_addr)
                   added == Added(R, i)
               IN  /\ \A k \in 1..Len(added) :
                          /\ ~InSeq(added[k], Pre(R, i).listening_address)
                          /\ InSeq(added[k], cand)
                          /\ \A j \in 1..Len(added) :
                                 added[j] = added[k] => j = k
                   /\ \A k \in 1..Len(cand) :
                          InSeq(cand[k], Post(R, i).listening_address)

\* C13: no event or command removes or reorders an element of
\* listening_address (a closed listener included), and add_observed_addr
\* appends exactly the derived addresses that are not yet in it, each once:
\* for the poll and for every public operation run from the current state.
C13_ListeningAppendOnly ==
    /\ Busy => AppendOnly(PollRun)
    /\ \A p \in Peers : AppendOnly(DropNodeRun(p))
    /\ \A p \in Peers, protocol \in Protocols, data \in Payloads :
           AppendOnly(SendRun(p, protocol, data))
    /\ \A protocol \in Protocols, data \in Payloads :
           AppendOnly(BroadcastRun(protocol, data))
    /\ \A a \in ListenAddrs : AppendOnly(ListenOnRun(a))
    /\ \A a \in DialAddrs : AppendOnly(DialRun(a))

\* a poll that learns an observed address whose derived address is already
\* in listening_address, and adds nothing
C13_Witness ==
    \E i \in StepIds(PollRun) :
        /\ IsNodeEvent(PollRun, i, {"Identified"})
        /\ \E k \in 1..Len(Derived(PollRun, i,
                                   What(PollRun, i).raw.event.observed_addr)) :
               InSeq(Derived(PollRun, i,
                             What(PollRun, i).raw.event.observed_addr)[k],
                     Pre(PollRun, i).listening_address)
        /\ Added(PollRun, i) = <<>>

\* ------------------------------------------------------------------ C14
IsBroadcast(R, i) == What(R, i).kind = "send" /\ ~What(R, i).message.some

\* every broadcast of the run R enqueues the payload exactly once on every
\* peer the swarm reports connected at that moment and on no other, and a
\* connection R sees established starts with nothing enqueued
BroadcastOk(R) ==
    \A i \in StepIds(R) :
        /\ IsBroadcast(R, i) =>
               /\ Post(R, i).nodes = Pre(R, i).nodes
               /\ DOMAIN Post(R, i).inbox = Pre(R, i).nodes
               /\ \A p \in Pre(R, i).nodes :
                      Post(R, i).inbox[p] =
                          Append(Pre(R, i).inbox[p],
                                 SendCustomMessage(What(R, i).message.protocol,
                                                   What(R, i).message.data))
        /\ IsRaw(R, i, {"Connected"}) =>
               Post(R, i).inbox[What(R, i).raw.peer_id] = <<>>

RawsOf(R) ==
    LET raws == SelectSeq(R.log, LAMBDA x : x.what.kind = "raw")
    IN  [i \in 1..Len(raws) |-> raws[i].what.raw]

\* C15: a poll returns Ready or NotReady, never an error or the end of the
\* stream, whatever raw events it processes; the events behind a failure
\* event are processed in the same poll or stay ready for the next ones,
\* none is lost.
C15_NoRawEventIsFatal ==
    LET R == PollRun
    IN  /\ R.ret \in {"Ready", "NotReady"}
        /\ RawsOf(R) \o R.ready_end = R.ready
        /\ \A i \in 1..Len(RawsOf(R)) :
               (RawsOf(R)[i].type \in ErrorKinds /\ i < Len(R.ready)) =>
                   \/ i < Len(RawsOf(R))
                   \/ R.ready_end = SubSeq(R.ready, i + 1, Len(R.ready))
        /\ R.ret = "NotReady" => R.ready_end = <<>>

\* a poll that processes a dial error and then a node error, with which it
\* returns
C15_Witness ==
    LET R == PollRun
    IN  /\ Len(RawsOf(R)) = 2
        /\ RawsOf(R)[1].type \in {"DialError", "UnknownPeerDialError"}
        /\ RawsOf(R)[2].type = "NodeError"
        /\ R.ret = "Ready"

\* ------------------------------------------------------------------ C16
\* the kind of Application Event a translatable raw event produces
EventTypeOf(e) ==
    IF e.type \in {"NodeClosed", "NodeError"} THEN "NodeClosed"
    ELSE CASE e.event.type = "Useless" -> "NodeClosed"
           [] e.event.type = "Identified" -> "NodeInfo"
           [] OTHER -> e.event.type

Min(a, b) == IF a < b THEN a ELSE b

\* C16: over two polls in a row the sink gets the events of the first
\* translatable raw events, one per poll, in the order the swarm had them
\* ready: none skipped, none twice; what the polls did not reach stays ready
\* in its order.
C16_EventsInRawOrder ==
    LET R1 == PollRun
        R2 == PollAgainRun
        tr == SelectSeq(R1.ready, Translatable)
        got == Delivered(R1) \o Delivered(R2)
    IN  /\ Len(got) = Min(Len(tr), 2)
        /\ Len(Delivered(R1)) = Min(Len(tr), 1)
        /\ \A k \in 1..Len(got) :
               /\ got[k].id = tr[k].peer_id
               /\ got[k].type = EventTypeOf(tr[k])
        /\ RawsOf(R1) \o RawsOf(R2) \o R2.ready_end = R1.ready

\* two polls that deliver the events of two translatable raw events of
\* different kinds
C16_Witness ==
    LET got == Delivered(PollRun) \o Delivered(PollAgainRun)
    IN  /\ Len(got) = 2
        /\ got[1].type # got[2].type
        /\ got[2].type # "NodeClosed"

\* ------------------------------------------------------------------ C17
ProtocolEvents ==
    {"CustomProtocolOpen", "CustomMessage", "CustomProtocolClosed"}

\* the Application Event that corresponds to a protocol event ev of peer x
Corresponding(x, ev) ==
    CASE ev.type = "CustomProtocolOpen" ->
             [type |-> "CustomProtocolOpen", id |-> x,
              protocol |-> ev.protocol, version |-> ev.version]
      [] ev.type = "CustomMessage" ->
             [type |-> "CustomMessage", id |-> x,
              protocol |-> ev.protocol, data |-> ev.data]
      [] ev.type = "CustomProtocolClosed" ->
             [type |-> "CustomProtocolClosed", id |-> x,
              protocol |-> ev.protocol]

\* C17: a protocol-opened, message-received or protocol-closed event of
\* peer x is delivered as exactly the corresponding Application Event, with
\* x and the same protocol, version and payload, and changes neither the
\* registry nor listening_address nor need_connect.
C17_ProtocolEvents ==
    LET R == PollRun
    IN  HasReadyEvent(ProtocolEvents) =>
        \A i \in StepIds(R) :
            IsNodeEvent(R, i, ProtocolEvents) =>
                LET x == What(R, i).raw.peer_id
                    ev == What(R, i).raw.event
                IN  /\ What(R, i).out = <<Corresponding(x, ev)>>
                    /\ Delivered(R) = <<Corresponding(x, ev)>>
                    /\ Post(R, i).connected_nodes = Pre(R, i).connected_nodes
                    /\ Post(R, i).listening_address =
                           Pre(R, i).listening_address
                    /\ Post(R, i).need_connect = Pre(R, i).need_connect

\* a poll that delivers the protocol-closed event of a registered peer
\* while an address is queued in need_connect
C17_Witness ==
    \E i \in StepIds(PollRun) :
        /\ IsNodeEvent(PollRun, i, {"CustomProtocolClosed"})
        /\ Registered(Pre(PollRun, i), What(PollRun, i).raw.peer_id)
        /\ Pre(PollRun, i).need_connect # <<>>

\* ------------------------------------------------------------------ C18
\* the commands a run applied, by kind, in the order it applied them
Applied(R) ==
    LET of(kind) == SelectSeq(R.log, LAMBDA x : x.what.kind = kind)
    IN  [dialers |-> [i \in 1..Len(of("dial")) |-> of("dial")[i].what.address],
         listens |->
             [i \in 1..Len(of("listen")) |-> of("listen")[i].what.address],
         disconnects |->
             [i \in 1..Len(of("disconnect")) |-> of("disconnect")[i].what.id],
         messages |->
             [i \in 1..Len(of("send")) |-> of("send")[i].what.message]]

\* C18: a poll that finds a translatable event ready delivers it and
\* applies no command, leaving the pending commands as they were; a poll
\* that finds none returns NotReady and applies every pending dial, listen
\* and disconnect and the whole send batch, leaving none pending.
C18_DrainOnlyWhenIdle ==
    LET R == PollRun
        k == FirstTranslatable(R.ready)
    IN  /\ k > 0 =>
               /\ R.ret = "Ready"
               /\ Applied(R) = NoPending
               /\ Pending(R.end.handle) = Pending(service_handle)
        /\ k = 0 =>
               /\ R.ret = "NotReady"
               /\ Applied(R) = Pending(service_handle)
               /\ Pending(R.end.handle) = NoPending

\* a poll that delivers an event while a dial and another command are
\* pending
C18_Witness ==
    /\ PollRun.ret = "Ready"
    /\ service_handle.dialers # <<>>
    /\ \/ service_handle.listens # <<>>
       \/ service_handle.disconnects # <<>>
       \/ service_handle.messages # <<>>

\* ------------------------------------------------------------------ C19
\* the messages a connected peer's handler may report, one after another,
\* for as long as the peer sends them
Reports(sw) ==
    {[type |-> "NodeEvent", peer_id |-> p,
      event |-> [type |-> "CustomMessage", protocol |-> protocol,
                 data |-> data]] :
         p \in (DOMAIN sw.nodes) \ sw.useless,
         protocol \in Protocols, data \in Payloads}

\* the service after the poll run from the current state, once the sink has
\* taken the event and the swarm has the raw event e ready behind the rest
PolledThen(e) ==
    [PollRun.s EXCEPT !.swarm = Sent([@ EXCEPT !.ready = Append(@, e)]),
                      !.service_handle = Taken(@),
                      !.log = <<>>]

\* a state the service is in again after a poll and one more reported
\* message: polled for ever under that stream of messages, it stays in it
Recurs == \E e \in Reports(PollRun.s.swarm) : PolledThen(e) = St

\* C19: under repeated polling every pending command is eventually drained,
\* whatever raw events the swarm keeps reporting. Stated so that a finite
\* run refutes it: no reachable state with a command pending recurs under
\* polling, as a command that is eventually drained is not pending for ever.
C19_PendingIsDrained ==
    Pending(service_handle) # NoPending => ~Recurs

\* ------------------------------------------------------------------ C20
\* C20: every event delivered to the sink names a peer that had a registry
\* entry just before the raw event that produced it was processed.
C20_EventsNameRegisteredPeers ==
    LET R == PollRun
    IN  \A i \in StepIds(R) :
            (What(R, i).kind = "raw" /\ What(R, i).out # <<>>) =>
                Registered(Pre(R, i), What(R, i).out[1].id)

====
